---- MODULE Spec2Model ----
(***************************************************************************)
(* Timer<T>: the error-correcting polling timer of Timer.hpp, with its two *)
(* instantiations: KernelTimer (T = long long, microseconds) and TimerSDL  *)
(* (T = Uint32, milliseconds, arithmetic modulo 2^32).                     *)
(*                                                                         *)
(* The timer's fields are state variables; every method is a pure operator *)
(* on a record of the fields (and the samples it takes from the time       *)
(* functor), and an action applies it.  The time functor returns `clock`,  *)
(* which the environment moves.                                            *)
(***************************************************************************)
EXTENDS Integers

\* Bounds of the model.
MaxTime == 5
\* the largest value the long long time source reaches
MaxStep == 2
\* the largest advance of the time source in one step
MaxFrames == 2
\* update() is not polled when it would count more frames than this
Modulus == 8
\* Uint32 arithmetic is modulo 2^32; the model scales the modulus down
MaxDrift == 1
\* the time that may pass between the two samples of one start() call

\* The intervals start() is called with (long long accepts negative ones).
Intervals == {-1, 0, 2, 3}
\* The even ones among the positive intervals: those with an exact half.
EvenIntervals == {2, 4}

VARIABLES
    interval, t0, t1, terr, tstart, frames, started, paused,
    \* Timer<T>'s fields _interval, _t0, _t1, _terr, _tstart, _frames, _started, _paused
    clock,
    \* what the time functor returns when called now
    unsignedT,
    \* the instantiation: TRUE for Timer<Uint32>, FALSE for Timer<long long>
    op,
    \* the last operation carried out
    ret,
    \* what update() returned, when it was the last operation
    wait,
    \* what waitTime() returned, when it was the last operation
    branch,
    \* the branch the last update() took
    calls,
    \* how many times the last operation called the time functor
    negdur,
    \* some update() has evaluated tnow - _t0 with tnow < _t0
    negstart,
    \* start() has been called with a negative interval
    pc
    \* position in a scripted run ("free": no script)

fields == <<interval, t0, t1, terr, tstart, frames, started, paused>>
vars == <<interval, t0, t1, terr, tstart, frames, started, paused,
          clock, unsignedT, op, ret, wait, branch, calls, negdur, negstart, pc>>

\* A value of type T: long long is taken as the integers (the model's values
\* stay far from 2^63), Uint32 wraps.
ToT(x) == IF unsignedT THEN x % Modulus ELSE x

\* The timer object.
Self ==
    [interval |-> interval, t0 |-> t0, t1 |-> t1, terr |-> terr,
     tstart |-> tstart, frames |-> frames, started |-> started,
     paused |-> paused]

\* Assignment of the object's fields.
Becomes(s) ==
    /\ interval' = s.interval
    /\ t0' = s.t0
    /\ t1' = s.t1
    /\ terr' = s.terr
    /\ tstart' = s.tstart
    /\ frames' = s.frames
    /\ started' = s.started
    /\ paused' = s.paused

\* Timer<T>::reset: one sample of the time functor.
reset(s, tnow) ==
    [s EXCEPT !.t0 = tnow, !.t1 = tnow, !.tstart = tnow, !.terr = 0,
              !.frames = 0]

\* Timer<T>::_init
init(tnow) ==
    [reset([interval |-> 0, t0 |-> 0, t1 |-> 0, terr |-> 0, tstart |-> 0,
            frames |-> 0, started |-> FALSE, paused |-> FALSE], tnow)
     EXCEPT !.started = FALSE, !.paused = FALSE]

\* resume() as it would be if it did not test the paused flag.
resume_unconditional(s, tnow) ==
    LET dt == ToT(s.t1 - s.t0)
    IN [s EXCEPT !.t0 = tnow, !.t1 = ToT(tnow + dt), !.paused = FALSE]

\* resume() as it would be if it put the gap on _t0 instead of _t1.
resume_swapsBases(s, tnow) ==
    IF s.paused
    THEN LET dt == ToT(s.t1 - s.t0)
         IN [s EXCEPT !.t0 = ToT(tnow + dt), !.t1 = tnow, !.paused = FALSE]
    ELSE s

\* Timer<T>::resume: samples the time functor only when paused.
resume(s, tnow) ==
    IF s.paused
    THEN LET dt == ToT(s.t1 - s.t0)
         IN [s EXCEPT !.t0 = tnow, !.t1 = ToT(tnow + dt), !.paused = FALSE]
    ELSE s

\* Timer<T>::pause
pause(s) == [s EXCEPT !.paused = TRUE]

\* stop() as it would be if it forgot to clear the interval.
stop_keepsInterval(s) == [s EXCEPT !.started = FALSE]

\* stop() as it would be if it also cleared the frame counter.
stop_clearsFrames(s) == [s EXCEPT !.interval = 0, !.started = FALSE, !.frames = 0]

\* Timer<T>::stop
stop(s) == [s EXCEPT !.interval = 0, !.started = FALSE]

\* Timer<T>::start: reset() samples tnow1, resume() (when paused) tnow2.
start(s, i, tnow1, tnow2) ==
    [resume(reset([s EXCEPT !.interval = i], tnow1), tnow2)
     EXCEPT !.started = TRUE]

\* The early return as it would be if it forgot the paused flag.
skips_ignoresPause(s) == ~s.started

\* update(): the early return of a stopped or paused timer.
skips(s) == ~s.started \/ s.paused

\* The wraparound test as it would be if it were left out.
wrapped_never(s, tnow) == FALSE

\* update(): the wraparound test.
wrapped(s, tnow) == tnow < s.t0

\* The wraparound branch as it would be if it forgot to move _t0.
rebase_forgetsT0(s, tnow) == [s EXCEPT !.t1 = tnow, !.tstart = tnow]

\* update(): the wraparound branch.
rebase(s, tnow) == [s EXCEPT !.t0 = tnow, !.t1 = tnow, !.tstart = tnow]

\* update(): the test of the debt branch.
indebt(s) == s.interval < s.terr

\* The debt branch as it would be if it forgot to clear the accumulator.
repay_keepsError(s, tnow) ==
    [s EXCEPT !.t0 = s.t1, !.t1 = tnow, !.frames = ToT(s.frames + 1)]

\* The debt branch as it would be if it forgot to count the frame.
repay_keepsFrames(s, tnow) == [s EXCEPT !.terr = 0, !.t0 = s.t1, !.t1 = tnow]

\* The debt branch as it would be if it moved _t0 to the new sample.
repay_resyncs(s, tnow) ==
    [s EXCEPT !.terr = 0, !.t0 = tnow, !.t1 = tnow,
              !.frames = ToT(s.frames + 1)]

\* update(): the debt branch.
repay(s, tnow) ==
    [s EXCEPT !.terr = 0, !.t0 = s.t1, !.t1 = tnow,
              !.frames = ToT(s.frames + 1)]

\* The test of the normal branch as it would be if it never succeeded.
due_never(s, tnow) == FALSE

\* update(): the test of the normal branch.
due(s, tnow) == ToT(tnow - s.t0) >= ToT(s.interval - s.terr)

\* The new error accumulator as it would be if the overshoot were forgotten.
newError_forgotten(s, tnow) == 0

\* update(): the new error accumulator of the normal branch.
newError(s, tnow) ==
    IF ToT(s.interval - s.terr) > ToT(tnow - s.t0)
    THEN 0
    ELSE ToT(ToT(tnow - s.t0) - ToT(s.interval + s.terr))

\* update(): the normal branch.
fire(s, tnow) ==
    [s EXCEPT !.terr = newError(s, tnow), !.t1 = tnow, !.t0 = tnow,
              !.frames = ToT(s.frames + 1)]

\* Timer<T>::update: the object after the call, the value returned, the
\* branch taken, and whether tnow - _t0 was evaluated with tnow < _t0.
update(s, tnow) ==
    IF skips(s)
    THEN [s |-> s, ret |-> FALSE, branch |-> "skip", neg |-> FALSE]
    ELSE IF wrapped(s, tnow)
    THEN [s |-> rebase(s, tnow), ret |-> FALSE, branch |-> "wrap",
          neg |-> FALSE]
    ELSE IF indebt(s)
    THEN [s |-> repay(s, tnow), ret |-> TRUE, branch |-> "debt",
          neg |-> FALSE]
    ELSE IF due(s, tnow)
    THEN [s |-> fire(s, tnow), ret |-> TRUE, branch |-> "normal",
          neg |-> tnow < s.t0]
    ELSE [s |-> s, ret |-> FALSE, branch |-> "wait", neg |-> tnow < s.t0]

\* waitTime() as it would be if it forgot to clamp at 0.
waitTime_unclamped(s, tnow) == ToT(ToT(s.t0 + s.terr + s.interval) - tnow)

\* Timer<T>::waitTime
waitTime(s, tnow) ==
    IF tnow > ToT(s.t0 + s.terr + s.interval)
    THEN 0
    ELSE ToT(ToT(s.t0 + s.terr + s.interval) - tnow)

\* Timer<T>::elapsed, getTicks, getFrames
elapsed(s) == ToT(s.t1 - s.tstart)
getTicks(s) == s.t1
getFrames(s) == s.frames

\* What an operation leaves behind for the observer.
Did(o, r, w, b, c) ==
    /\ op' = o
    /\ ret' = r
    /\ wait' = w
    /\ branch' = b
    /\ calls' = c

\* After construction: Timer(timeFunc) has run _init().
InitAt(u, c, p) ==
    /\ unsignedT = u
    /\ clock = c
    /\ LET s == init(c)
       IN /\ interval = s.interval /\ t0 = s.t0 /\ t1 = s.t1
          /\ terr = s.terr /\ tstart = s.tstart /\ frames = s.frames
          /\ started = s.started /\ paused = s.paused
    /\ op = "init" /\ ret = FALSE /\ wait = 0 /\ branch = "none" /\ calls = 1
    /\ negdur = FALSE /\ negstart = FALSE
    /\ pc = p

Init == \E c \in 0..MaxStep : InitAt(FALSE, c, "free")

InitSDL == \E c \in 0..(Modulus - 1) : InitAt(TRUE, c, "free")

\* A call of update(); one that would count frame n + 1 is not made.
doUpdateUpTo(n) ==
    /\ update(Self, clock).ret => frames < n
    /\ LET u == update(Self, clock)
       IN /\ Becomes(u.s)
          /\ Did("update", u.ret, 0, u.branch,
                 IF u.branch = "skip" THEN 0 ELSE 1)
          /\ negdur' = (negdur \/ u.neg)
    /\ UNCHANGED <<clock, unsignedT, negstart>>

\* A call of update().
doUpdate == doUpdateUpTo(MaxFrames)

\* A call of start(i); while it runs the clock may move between the two
\* samples it takes.
doStart(i) ==
    \E d \in 0..MaxDrift :
        /\ unsignedT \/ clock + d <= MaxTime
        /\ (~paused) => d = 0
        /\ Becomes(start(Self, ToT(i), clock, ToT(clock + d)))
        /\ clock' = ToT(clock + d)
        /\ Did("start", FALSE, 0, "none", IF paused THEN 2 ELSE 1)
        /\ negstart' = (negstart \/ ToT(i) < 0)
        /\ UNCHANGED <<unsignedT, negdur>>

\* A call of stop().
doStop ==
    /\ Becomes(stop(Self))
    /\ Did("stop", FALSE, 0, "none", 0)
    /\ UNCHANGED <<clock, unsignedT, negdur, negstart>>

\* A call of pause().
doPause ==
    /\ Becomes(pause(Self))
    /\ Did("pause", FALSE, 0, "none", 0)
    /\ UNCHANGED <<clock, unsignedT, negdur, negstart>>

\* A call of resume().
doResume ==
    /\ Becomes(resume(Self, clock))
    /\ Did("resume", FALSE, 0, "none", IF paused THEN 1 ELSE 0)
    /\ UNCHANGED <<clock, unsignedT, negdur, negstart>>

\* A call of reset().
doReset ==
    /\ Becomes(reset(Self, clock))
    /\ Did("reset", FALSE, 0, "none", 1)
    /\ UNCHANGED <<clock, unsignedT, negdur, negstart>>

\* A call of waitTime().
doWaitTime ==
    /\ Did("waitTime", FALSE, waitTime(Self, clock), "none", 1)
    /\ UNCHANGED <<fields, clock, unsignedT, negdur, negstart>>

\* The time source advances by d, a long long one not beyond limit (a
\* Uint32 tick counter wraps).
doTickWithin(d, limit) ==
    /\ unsignedT \/ clock + d <= limit
    /\ clock' = ToT(clock + d)
    /\ Did("tick", FALSE, 0, "none", 0)
    /\ UNCHANGED <<fields, unsignedT, negdur, negstart>>

\* The time source advances by d.
doTick(d) == doTickWithin(d, MaxTime)

Update == doUpdate /\ UNCHANGED pc

Start == \E i \in Intervals : doStart(i) /\ UNCHANGED pc

Stop == doStop /\ UNCHANGED pc

Pause == doPause /\ UNCHANGED pc

Resume == doResume /\ UNCHANGED pc

Reset == doReset /\ UNCHANGED pc

WaitTime == doWaitTime /\ UNCHANGED pc

Tick == \E d \in 1..MaxStep : doTick(d) /\ UNCHANGED pc

\* The time source misbehaves: its next sample is smaller than the last.
ClockBack ==
    \E c \in 0..(clock - 1) :
        /\ clock' = c
        /\ Did("tick", FALSE, 0, "none", 0)
        /\ UNCHANGED <<fields, unsignedT, negdur, negstart, pc>>

\* Any caller, any interval, a time source that may go backwards.
Next ==
    \/ Update
    \/ Start
    \/ Stop
    \/ Pause
    \/ Resume
    \/ Reset
    \/ WaitTime
    \/ Tick
    \/ ClockBack

\* Timer<long long> under any caller.
Spec == Init /\ [][Next]_vars

\* The same with a non-decreasing time source.
NextMono ==
    \/ Update
    \/ Start
    \/ Stop
    \/ Pause
    \/ Resume
    \/ Reset
    \/ WaitTime
    \/ Tick

SpecMono == Init /\ [][NextMono]_vars

\* Timer<Uint32> under any caller.
SpecSDL == InitSDL /\ [][Next]_vars

\* A scripted caller: start(I), half an interval passes, pause(), any time
\* passes, resume(), the other half passes, update() twice.  update() may
\* also be polled at any point before.
InitPause == \E c \in 0..MaxStep : InitAt(FALSE, c, "constructed")

ScStart ==
    /\ pc = "constructed"
    /\ \E i \in EvenIntervals : doStart(i)
    /\ pc' = "started"

ScFirstHalf ==
    /\ pc = "started"
    /\ doTick(interval \div 2)
    /\ pc' = "halfway"

ScPause ==
    /\ pc = "halfway"
    /\ doPause
    /\ pc' = "paused"

ScPausedTick ==
    /\ pc = "paused"
    /\ \E d \in 1..MaxStep : doTick(d)
    /\ pc' = "paused"

ScResume ==
    /\ pc = "paused"
    /\ doResume
    /\ pc' = "resumed"

ScSecondHalf ==
    /\ pc = "resumed"
    /\ doTick(interval \div 2)
    /\ pc' = "due"

ScUpdate ==
    /\ pc = "due"
    /\ doUpdate
    /\ pc' = "polled"

ScUpdateAgain ==
    /\ pc = "polled"
    /\ doUpdate
    /\ pc' = "done"

ScEarlyUpdate ==
    /\ pc \in {"started", "halfway", "paused", "resumed"}
    /\ doUpdate
    /\ UNCHANGED pc

NextPause ==
    \/ ScStart
    \/ ScFirstHalf
    \/ ScPause
    \/ ScPausedTick
    \/ ScResume
    \/ ScSecondHalf
    \/ ScUpdate
    \/ ScUpdateAgain
    \/ ScEarlyUpdate

SpecPause == InitPause /\ [][NextPause]_vars

\* KernelTimer::SECOND: a second in the microseconds of KernelTimer.
SECOND == 1000000

\* The intervals of the example run: the tenth of a second TimerTest starts
\* its timer with, and other multiples of ten.
ExampleIntervals == {10, 100, 1000, 10000, SECOND \div 10, SECOND}

\* A scripted caller over a scripted time source: the timer is constructed
\* and started at time 0 (and may be reset there), then polled at half an
\* interval, at one interval, at two and a half and at 2.6 intervals;
\* waitTime() is called after the first poll and may be called anywhere.
InitExample == InitAt(FALSE, 0, "new")

ExStart ==
    /\ pc = "new"
    /\ \E i \in ExampleIntervals : doStart(i)
    /\ pc' = "at0"

ExReset ==
    /\ pc = "at0"
    /\ doReset
    /\ pc' = "at0"

ExTickTo50 ==
    /\ pc = "at0"
    /\ doTickWithin(interval \div 2, 3 * interval)
    /\ pc' = "at50"

ExUpdate50 ==
    /\ pc = "at50"
    /\ doUpdate
    /\ pc' = "polled50"

ExWait50 ==
    /\ pc = "polled50"
    /\ doWaitTime
    /\ pc' = "waited50"

ExTickTo100 ==
    /\ pc = "waited50"
    /\ doTickWithin(interval \div 2, 3 * interval)
    /\ pc' = "at100"

ExUpdate100 ==
    /\ pc = "at100"
    /\ doUpdate
    /\ pc' = "polled100"

ExTickTo250 ==
    /\ pc = "polled100"
    /\ doTickWithin((3 * interval) \div 2, 3 * interval)
    /\ pc' = "at250"

ExUpdate250 ==
    /\ pc = "at250"
    /\ doUpdate
    /\ pc' = "polled250"

ExTickTo260 ==
    /\ pc = "polled250"
    /\ doTickWithin(interval \div 10, 3 * interval)
    /\ pc' = "at260"

ExUpdate260 ==
    /\ pc = "at260"
    /\ doUpdate
    /\ pc' = "polled260"

ExPeek ==
    /\ pc # "new"
    /\ doWaitTime
    /\ UNCHANGED pc

NextExample ==
    \/ ExStart
    \/ ExReset
    \/ ExTickTo50
    \/ ExUpdate50
    \/ ExWait50
    \/ ExTickTo100
    \/ ExUpdate100
    \/ ExTickTo250
    \/ ExUpdate250
    \/ ExTickTo260
    \/ ExUpdate260
    \/ ExPeek

SpecExample == InitExample /\ [][NextExample]_vars

\* Bounds of the drift run.
DriftFrames == 3
\* the drift run polls until this many frames are counted
DriftEnd == 5 * DriftFrames
\* the latest time of the drift run

\* The intervals of the drift run.
DriftIntervals == {1, 2, 3}

\* update(): the earliest sample at which the next poll of a running timer
\* returns true: at once when in debt (the last poll was at _t1), else when
\* tnow - _t0 reaches _interval - _terr.
boundary(s) == IF indebt(s) THEN s.t1 ELSE s.t0 + s.interval - s.terr

\* A caller that starts the timer at time 0 and never pauses it, over a
\* non-decreasing time source; update() is polled so that it returns true
\* less than one interval after the boundary.
InitDrift == InitAt(FALSE, 0, "idle")

DrStart ==
    /\ pc = "idle"
    /\ \E i \in DriftIntervals : doStart(i)
    /\ pc' = "drift"

DrTick ==
    /\ pc = "drift"
    /\ clock + 1 <= boundary(Self) + (interval - 1)
    /\ doTickWithin(1, DriftEnd)
    /\ UNCHANGED pc

DrUpdate ==
    /\ pc = "drift"
    /\ doUpdateUpTo(DriftFrames)
    /\ UNCHANGED pc

NextDrift ==
    \/ DrStart
    \/ DrTick
    \/ DrUpdate

SpecDrift == InitDrift /\ [][NextDrift]_vars

\* Bounds of the polling loop.
LoopFrames == 3
\* the loop of TimerTest runs while getFrames() is below this (30 there)
LoopEnd == (LoopFrames + 1) * (3 + 2 * MaxStep) + MaxStep
\* the latest time the loop is followed to

\* The intervals the polling loop is started with.
LoopIntervals == {1, 2, 3}

\* KernelTimer::sleepyTime: sleeps for waitTime(); nanosleep() returns over
\* time units late.
doSleepyTime(over, limit) ==
    LET twait == waitTime(Self, clock)
    IN /\ clock + twait + over <= limit
       /\ clock' = clock + twait + over
       /\ Did("sleepyTime", FALSE, twait, "none", 1)
       /\ UNCHANGED <<fields, unsignedT, negdur, negstart>>

\* main() of TimerTest: start(i); while (getFrames() < LoopFrames)
\* { update(); sleepyTime(); }
InitLoop == \E c \in 0..MaxStep : InitAt(FALSE, c, "main")

LoopStart ==
    /\ pc = "main"
    /\ \E i \in LoopIntervals : doStart(i)
    /\ pc' = "test"

LoopUpdate ==
    /\ pc = "test"
    /\ getFrames(Self) < LoopFrames
    /\ doUpdateUpTo(LoopFrames)
    /\ pc' = "sleep"

LoopSleep ==
    /\ pc = "sleep"
    /\ \E over \in 0..MaxStep : doSleepyTime(over, LoopEnd)
    /\ pc' = "test"

LoopExit ==
    /\ pc = "test"
    /\ ~(getFrames(Self) < LoopFrames)
    /\ pc' = "done"
    /\ Did("exit", FALSE, 0, "none", 0)
    /\ UNCHANGED <<fields, clock, unsignedT, negdur, negstart>>

NextLoop ==
    \/ LoopStart
    \/ LoopUpdate
    \/ LoopSleep
    \/ LoopExit

\* The loop is one thread that keeps running.
SpecLoop == InitLoop /\ [][NextLoop]_vars /\ WF_vars(NextLoop)

----------------------------------------------------------------------------
\* The step was a call of update() on a timer that runs (started, unpaused).
RunningUpdate == op' = "update" /\ started /\ ~paused

\* C1: getFrames() counts the update() calls that returned true since the
\* last construction, reset() or start(): an update() returning true raises
\* frames by exactly 1, one returning false leaves it, stop(), pause(),
\* resume(), waitTime() and the passing of time leave it, and only reset()
\* and start() lower it.
C1_FramesCountTrueUpdates ==
    [][/\ (op' = "update" /\ ret') => getFrames(Self') = getFrames(Self) + 1
       /\ (op' = "update" /\ ~ret') => getFrames(Self') = getFrames(Self)
       /\ op' \in {"stop", "pause", "resume", "waitTime", "tick"}
              => getFrames(Self') = getFrames(Self)
       /\ getFrames(Self') < getFrames(Self) => op' \in {"reset", "start"}
       /\ op' \in {"reset", "start"} => getFrames(Self') = 0]_vars

\* Two elapsed-events have been counted, the second through the debt branch.
C1_Witness == op = "update" /\ ret /\ branch = "debt" /\ frames = 2

\* C7: a timer that is not started has interval 0.
C7_StoppedHasNoInterval == ~started => interval = 0

\* A timer that ran with a positive interval and counted frames was stopped.
C7_Witness == op = "stop" /\ ~started /\ frames > 0 /\ terr > 0

\* C9: update() on a timer that is not started or is paused returns false,
\* does not call the time functor and changes no field; update() returns true
\* only on a started timer, and only start() makes a timer started.
C9_IdleUpdateIsNoOp ==
    [][/\ (op' = "update" /\ (~started \/ paused))
              => (~ret' /\ calls' = 0 /\ Self' = Self)
       /\ (op' = "update" /\ ret') => started
       /\ (~started /\ started') => op' = "start"]_vars

\* update() was called on a paused timer whose interval had long elapsed.
C9_Witness ==
    /\ op = "update" /\ branch = "skip" /\ started /\ paused
    /\ interval > 0 /\ clock - t0 >= interval - terr /\ clock > t0

\* C10: stop() sets interval = 0 and started = false and leaves t0, t1,
\* tStart, tError, frames and paused as they were, so getFrames() and
\* elapsed() answer as before; a second stop() changes nothing more.
C10_StopKeepsCounters ==
    [][op' = "stop" =>
         /\ interval' = 0 /\ ~started'
         /\ <<t0, t1, tstart, terr, frames, paused>>'
                = <<t0, t1, tstart, terr, frames, paused>>
         /\ getFrames(Self') = getFrames(Self)
         /\ elapsed(Self') = elapsed(Self)
         /\ stop(Self') = Self']_vars

\* stop() was called on a running timer with frames counted, time elapsed
\* and a nonzero error accumulator.
C10_Witness ==
    /\ op = "stop" /\ frames > 0 /\ elapsed(Self) > 0 /\ terr # 0 /\ paused

\* C2 as claimed: right after an update() that returned true on a timer with
\* a positive interval, the error accumulator is within one interval in
\* magnitude.
C2_ErrorWithinInterval ==
    (op = "update" /\ ret /\ interval > 0)
        => (terr <= interval /\ -terr <= interval)

\* C2 as amended: the debt is repaid by the next update(), not before the
\* bound is exceeded.  An update() of a running timer with a positive
\* interval that samples tnow >= t0 while tError > interval returns true
\* through the debt branch, and an update() through the debt branch leaves
\* tError = 0, within the bound.
C2_DebtRepaidByNextUpdate ==
    [][/\ (RunningUpdate /\ interval > 0 /\ clock >= t0 /\ terr > interval)
              => (ret' /\ branch' = "debt")
       /\ (op' = "update" /\ branch' = "debt")
              => (terr' = 0 /\ terr > interval)]_vars

\* A debt of more than one positive interval has just been repaid.
C2_Witness ==
    op = "update" /\ ret /\ branch = "debt" /\ interval > 0 /\ terr = 0

Max0(x) == IF x > 0 THEN x ELSE 0

\* C5: waitTime() returns max(0, (t0 + tError + interval) - tnow) for the
\* sample tnow it takes; it never returns a negative value.
C5_WaitTimeIsClampedRemainder ==
    [][op' = "waitTime" =>
         /\ wait' = Max0((t0 + terr + interval) - clock)
         /\ wait' >= 0
         /\ Self' = Self]_vars

\* waitTime() answered 0 on a running timer whose boundary lies in the past.
C5_Witness ==
    /\ op = "waitTime" /\ wait = 0 /\ started /\ interval > 0 /\ terr # 0
    /\ clock > t0 + terr + interval

\* C6: whenever update() on a running timer would return true for the
\* current sample, waitTime() returns 0 for the same sample.
C6_WaitAgreesWithUpdate ==
    (started /\ ~paused /\ update(Self, clock).ret)
        => waitTime(Self, clock) = 0

\* C4: an update() of a running timer that samples tnow < t0 returns false,
\* sets t0 = t1 = tStart = tnow and leaves frames, tError, interval, started
\* and paused; an update() that samples tnow >= t0 with no debt fires exactly
\* when tnow - t0 reaches interval - tError, t0 being the new baseline after a
\* wraparound; no update() evaluates tnow - t0 with tnow < t0.
C4_WraparoundRebases ==
    [][/\ (RunningUpdate /\ clock < t0)
              => /\ ~ret' /\ branch' = "wrap"
                 /\ t0' = clock /\ t1' = clock /\ tstart' = clock
                 /\ UNCHANGED <<frames, terr, interval, started, paused>>
       /\ (RunningUpdate /\ clock >= t0 /\ terr <= interval)
              => (ret' <=> ToT(clock - t0) >= ToT(interval - terr))
       /\ ~negdur']_vars

\* The Uint32 tick counter wrapped below t0 after frames were counted, and
\* update() rebased the timer on the sample.
C4_Witness ==
    /\ unsignedT /\ op = "update" /\ branch = "wrap" /\ ~ret
    /\ frames > 0 /\ t0 = clock /\ t1 = clock /\ tstart = clock

C3_PauseKeepsProgress ==
    /\ (pc \in {"started", "halfway", "paused", "resumed"} /\ op = "update")
           => ~ret
    /\ pc = "polled" => (ret /\ getFrames(Self) = 1)
    /\ pc = "done" => (~ret /\ getFrames(Self) = 1)

\* C11: after start(i) with i <= 0 every update() of the running timer
\* returns true, for the sample the time source gives at that moment.
C11_NonPositiveIntervalAlwaysFires ==
    (started /\ ~paused /\ interval <= 0) => update(Self, clock).ret


\* C12: the example run.  With the timer started at time 0: the poll at
\* half an interval returns false and waitTime() then returns half an
\* interval; the poll at one interval returns true with frames = 1; the poll
\* at two and a half intervals returns true through the normal branch with
\* frames = 2 and tError = half an interval; the poll a tenth of an interval
\* later returns false.
C12_ExampleTrace ==
    [][/\ (pc = "at50" /\ pc' = "polled50") =>
            (clock = interval \div 2 /\ ~ret' /\ frames' = 0)
       /\ (pc = "polled50" /\ pc' = "waited50") =>
            (op' = "waitTime" /\ wait' = interval \div 2)
       /\ (pc = "at100" /\ pc' = "polled100") =>
            (clock = interval /\ ret' /\ frames' = 1)
       /\ (pc = "at250" /\ pc' = "polled250") =>
            (/\ 2 * clock = 5 * interval
             /\ ret' /\ branch' = "normal"
             /\ frames' = 2 /\ 2 * terr' = interval)
       /\ (pc = "at260" /\ pc' = "polled260") =>
            (/\ 10 * clock = 26 * interval
             /\ ~ret' /\ frames' = 2)]_vars

C12_Witness ==
    /\ pc = "polled260"
    /\ interval = 100000 /\ clock = 260000
    /\ op = "update" /\ ~ret
    /\ frames = 2 /\ terr = 50000


\* C13: in a never-paused run where every elapsed-event is detected less
\* than one interval after its boundary, at every elapsed-event elapsed()
\* differs from getFrames() * interval by at most one interval.
C13_DriftWithinInterval ==
    (pc = "drift" /\ op = "update" /\ ret) =>
        /\ elapsed(Self) - frames * interval <= interval
        /\ frames * interval - elapsed(Self) <= interval


\* C14: in the polling loop of a timer started with a positive interval,
\* from every frame count below the target update() eventually returns true
\* once more, so getFrames() reaches the target and the loop terminates.
C14_LoopReachesTarget ==
    /\ \A k \in 0..(LoopFrames - 1) :
           (pc = "test" /\ frames = k) ~> (op = "update" /\ ret /\ frames = k + 1)
    /\ <>(pc = "done" /\ frames = LoopFrames)

C14_Witness ==
    /\ pc = "done"
    /\ frames = LoopFrames
    /\ interval > 0 /\ started /\ ~paused


\* C15: time spent paused is not counted: elapsed() right after a resume()
\* of a paused timer is what it was before (while paused it cannot change
\* except by reset() or start(), so this is its value when pause() was called).
C15_ResumeKeepsElapsed ==
    [][(op' = "resume" /\ paused) => elapsed(Self') = elapsed(Self)]_vars


\* C16: an update() of a running timer with tnow >= t0 and tError > interval
\* takes the debt branch whatever time has passed: it returns true, clears
\* tError, moves t0 to the old t1 and t1 to tnow, counts one frame and
\* leaves tStart and interval.  With interval >= 0 the timer is then out of
\* debt, and no operation but an update() through the normal branch (or a
\* start() with a negative interval) puts a started timer in debt, so two
\* consecutive update() calls never both take the debt branch.
C16_DebtBranch ==
    [][/\ (RunningUpdate /\ clock >= t0 /\ terr > interval) =>
            /\ ret' /\ branch' = "debt"
            /\ terr' = 0 /\ t0' = t1 /\ t1' = clock
            /\ frames' = frames + 1
            /\ tstart' = tstart /\ interval' = interval
            /\ interval >= 0 => update(Self', clock').branch # "debt"
       /\ (branch' = "debt" /\ interval >= 0) => ~indebt(Self')
       /\ (started' /\ interval' >= 0 /\ ~indebt(Self) /\ indebt(Self')) =>
            (op' = "update" /\ branch' = "normal")]_vars

C16_Witness ==
    /\ op = "update" /\ branch = "debt" /\ ret
    /\ interval >= 0 /\ terr = 0
    /\ t0 < t1 /\ t1 = clock /\ tstart < t0


\* C17: an update() through the normal branch sets tError to the amount by
\* which tnow - t0 exceeded the compensated threshold interval - tError, so
\* the new tError is never negative; t0 and t1 become tnow and one frame is
\* counted.
C17_NormalBranchError ==
    [][(RunningUpdate /\ branch' = "normal") =>
            /\ terr' = (clock - t0) - (interval - terr)
            /\ terr' >= 0
            /\ t0' = clock /\ t1' = clock
            /\ frames' = frames + 1]_vars


\* C18: resume() of a paused timer samples the time source once, sets t0 to
\* the sample and t1 to the sample plus the gap t1 - t0 it held, clears
\* paused and leaves tStart, tError, frames, interval and started; resume()
\* of a timer that is not paused takes no sample and changes nothing;
\* pause() only sets the paused flag, and a second pause() changes nothing.
C18_PauseResumeEffect ==
    [][/\ (op' = "resume" /\ paused) =>
            /\ calls' = 1
            /\ t0' = clock /\ t1' = clock + (t1 - t0)
            /\ ~paused'
            /\ tstart' = tstart /\ terr' = terr /\ frames' = frames
            /\ interval' = interval /\ started' = started
       /\ (op' = "resume" /\ ~paused) => (calls' = 0 /\ Self' = Self)
       /\ op' = "pause" =>
            /\ calls' = 0
            /\ Self' = [Self EXCEPT !.paused = TRUE]
            /\ paused => Self' = Self]_vars

C18_Witness ==
    /\ op = "resume" /\ calls = 1 /\ ~paused
    /\ t0 = clock /\ t1 > t0
    /\ started /\ frames > 0


\* C19: start(i) in any state leaves the just-started state: interval = i,
\* started, not paused, frames = 0, tError = 0 and t0 = t1 = tStart, so that
\* elapsed() = 0; reset() gives the same times and counters and leaves
\* interval, started and paused.
C19_StartGivesFreshState ==
    [][/\ op' = "start" =>
            /\ interval' \in Intervals
            /\ started' /\ ~paused'
            /\ frames' = 0 /\ terr' = 0
            /\ t0' = t1' /\ t1' = tstart'
            /\ elapsed(Self') = 0
       /\ op' = "reset" =>
            /\ frames' = 0 /\ terr' = 0
            /\ t0' = clock /\ t1' = clock /\ tstart' = clock
            /\ elapsed(Self') = 0
            /\ interval' = interval /\ started' = started
            /\ paused' = paused]_vars


\* C20: with a non-decreasing time source and no negative interval ever
\* given to start(), t0 never exceeds the latest sample of the time source,
\* so no update() takes the wraparound branch, whatever the interleaving of
\* update() with pause(), resume(), reset(), start() and stop().
C20_NoSpuriousWraparound ==
    ~negstart =>
        /\ t0 <= clock
        /\ ~wrapped(Self, clock)
        /\ branch # "wrap"

C20_Witness ==
    /\ ~negstart /\ started /\ ~paused
    /\ op = "tick"
    /\ t0 < clock /\ t0 < t1 /\ t1 >= clock
    /\ frames > 0

====
